---- MODULE Spec2Model ----
(***************************************************************************)
(* A model of the transmission engine of set-transmitter-js: one call to   *)
(* transmitSET (src/src/transmitter.ts) with its validation, its retry     *)
(* loop, the per-attempt deadline timer and the backoff waits, and the     *)
(* pure helpers of src/src/retry.ts and src/src/utils.ts that the loop     *)
(* consults.                                                               *)
(*                                                                         *)
(* Strings are sequences of one-character strings.  An optional value      *)
(* (undefined in the source) is the empty sequence, a present value v is   *)
(* the one-element sequence <<v>>.  The network is the environment: every  *)
(* fetch may resolve with any response of Responses, reject with a         *)
(* connection error, or be aborted by the deadline timer, and the read of  *)
(* a response body (response.text()) may complete or reject.               *)
(*                                                                         *)
(* Spec is the call over the inputs that vary the status predicate and the *)
(* retry policy; RequestSpec is the same call over the inputs that vary    *)
(* what is sent (credential, headers, deadline, destination); LiveSpec is  *)
(* Spec under weak fairness of the pending fetch, body read and delay;     *)
(* PureSpec applies the pure helpers on their own, once each, to inputs    *)
(* drawn from their samples; TransmitterSpec is two calls of one           *)
(* transmitter made by createTransmitter, interleaved at their awaits.     *)
(***************************************************************************)
EXTENDS Integers, Sequences, FiniteSets, TLC

\* ----------------------------------------------------------------- bounds

\* The largest retry.maxAttempts a caller passes (0 is passed too).
MaxAttempts == 3

\* Math.random() is drawn from { k / JitterSteps : k \in 0 .. JitterSteps-1 },
\* so that values above one half (a wait above the clamped delay) occur.
JitterSteps == 4

\* ------------------------------------------------------------- optionals

Absent == << >>

Some(v) == << v >>

IsPresent(o) == o /= << >>

Min(a, b) == IF a <= b THEN a ELSE b

RECURSIVE Pow(_, _)
Pow(b, e) == IF e <= 0 THEN 1 ELSE b * Pow(b, e - 1)

\* ------------------------------------------------------------ input data

Letters == {"a", "b", "c", "h", "x", "H"}

Digits == {"0", "1", "2", "3", "4", "5", "6", "7", "8", "9"}

\* The character class of /^[A-Za-z0-9_-]+$/ over the model's alphabet.
Base64UrlChars == Letters \cup Digits \cup {"_", "-"}

\* Tokens a caller passes: a.b.c, a-.b.c_ (well formed), a.b (two segments),
\* a..c (empty segment), a!.b.c (foreign character), the empty string.
JwtSamples ==
    { <<"a", ".", "b", ".", "c">>,
      <<"a", "-", ".", "b", ".", "c", "_">>,
      <<"a", ".", "b">>,
      <<"a", ".", ".", "c">>,
      <<"a", "!", ".", "b", ".", "c">>,
      << >> }

\* Destinations a caller passes: h://x (absolute), x (no scheme), the empty
\* string, ://x (empty scheme).
UrlSamples ==
    { <<"h", ":", "/", "/", "x">>,
      <<"x">>,
      << >>,
      <<":", "/", "/", "x">> }

\* H://x: an absolute destination whose scheme is written in upper case.
UpperCaseUrl == <<"H", ":", "/", "/", "x">>

\* Status codes the endpoint answers with: one below 400, one client error
\* outside the default retryable list, one inside it.
Statuses == {200, 404, 503}

\* Values of the retry-after response header: absent, "0", "-2", "2", "20".
RetryAfterSamples ==
    { Absent, Some(<<"0">>), Some(<<"-", "2">>), Some(<<"2">>), Some(<<"2", "0">>) }

\* A Response as fetch resolves it; bodyUsed is the Body mixin's flag, set
\* by the first call of text().
Responses ==
    [ status : Statuses, retryAfter : RetryAfterSamples, bodyUsed : {FALSE} ]

\* ------------------------------------------------------- src/src/retry.ts

DEFAULT_RETRY_CONFIG ==
    [ maxAttempts |-> 3,
      retryableStatuses |-> {429, 502, 503, 504},
      backoffMs |-> 1000,
      maxBackoffMs |-> 10000,
      backoffMultiplier |-> 2 ]

\* DEFAULT_OPTIONS.timeout, in milliseconds.
DefaultTimeout == 30000

\* DEFAULT_OPTIONS.parseResponse.
DefaultParseResponse == TRUE

\* DEFAULT_OPTIONS.validateStatus, as the set of statuses it accepts.
DefaultValidateStatus == { s \in Statuses : s < 400 }

\* Variant: every status counts as retryable.
isRetryableStatusAlways(statusCode, retryableStatuses) == TRUE

isRetryableStatus(statusCode, retryableStatuses) ==
    statusCode \in retryableStatuses

\* Variant: a failure without a status code is never retried.
shouldRetryStatusOnly(statusCode, attempt, config) ==
    IF attempt >= config.maxAttempts
    THEN FALSE
    ELSE IF ~IsPresent(statusCode)
         THEN FALSE
         ELSE isRetryableStatus(statusCode[1], config.retryableStatuses)

\* Variant: the attempt cutoff is taken one attempt late.
shouldRetryCutoffLate(statusCode, attempt, config) ==
    IF attempt > config.maxAttempts
    THEN FALSE
    ELSE IF ~IsPresent(statusCode)
         THEN TRUE
         ELSE isRetryableStatus(statusCode[1], config.retryableStatuses)

\* Variant: the attempt cutoff is taken one attempt early.
shouldRetryCutoffEarly(statusCode, attempt, config) ==
    IF attempt + 1 >= config.maxAttempts
    THEN FALSE
    ELSE IF ~IsPresent(statusCode)
         THEN TRUE
         ELSE isRetryableStatus(statusCode[1], config.retryableStatuses)

shouldRetry(statusCode, attempt, config) ==
    IF attempt >= config.maxAttempts
    THEN FALSE
    ELSE IF ~IsPresent(statusCode)
         THEN TRUE
         ELSE isRetryableStatus(statusCode[1], config.retryableStatuses)

DigitValue(c) ==
    CASE c = "0" -> 0 [] c = "1" -> 1 [] c = "2" -> 2 [] c = "3" -> 3
      [] c = "4" -> 4 [] c = "5" -> 5 [] c = "6" -> 6 [] c = "7" -> 7
      [] c = "8" -> 8 [] c = "9" -> 9

\* The digits of parseInt(s, 10): the value of the longest run of digits
\* from position i on, on top of acc.
RECURSIVE ParseDigits(_, _, _)
ParseDigits(s, i, acc) ==
    IF i > Len(s) \/ s[i] \notin Digits
    THEN acc
    ELSE ParseDigits(s, i + 1, acc * 10 + DigitValue(s[i]))

\* The first position of s at or after i that holds no blank.
RECURSIVE SkipBlanks(_, _)
SkipBlanks(s, i) ==
    IF i <= Len(s) /\ s[i] = " " THEN SkipBlanks(s, i + 1) ELSE i

\* parseInt(s, 10): leading blanks are skipped, a sign is taken, then the
\* longest run of digits; NaN (Absent) when that run is empty.
parseInt(s) ==
    LET start == SkipBlanks(s, 1)
        signed == start <= Len(s) /\ s[start] \in {"+", "-"}
        first == IF signed THEN start + 1 ELSE start
    IN  IF first > Len(s) \/ s[first] \notin Digits
        THEN Absent
        ELSE IF signed /\ s[start] = "-"
             THEN Some(0 - ParseDigits(s, first, 0))
             ELSE Some(ParseDigits(s, first, 0))

\* An HTTP-date, as one element: its text is not looked into by the model.
HttpDateSample == << "Wed, 21 Oct 2025 07:28:00 GMT" >>

\* new Date(s).getTime() in milliseconds on the clock of the model, NaN
\* (Absent) for a string that is no date.
DateTime(s) == IF s = HttpDateSample THEN Some(60000) ELSE Absent

\* Values of Date.now(): before, at and after the time of HttpDateSample.
ClockSamples == {30000, 60000, 90000}

\* Lines 25-44, with now the value of Date.now().
parseRetryAfter(retryAfterHeader, now) ==
    IF ~IsPresent(retryAfterHeader) \/ Len(retryAfterHeader[1]) = 0
    THEN Absent
    ELSE LET delaySeconds == parseInt(retryAfterHeader[1])
             retryDate == DateTime(retryAfterHeader[1])
         IN  IF IsPresent(delaySeconds)
             THEN Some(delaySeconds[1] * 1000)
             ELSE IF IsPresent(retryDate) /\ retryDate[1] - now > 0
                  THEN Some(retryDate[1] - now)
                  ELSE Absent

\* Variant: a hint is taken as it is, without the cap.
calculateBackoffHintUncapped(attempt, config, retryAfterMs) ==
    IF IsPresent(retryAfterMs) /\ retryAfterMs[1] > 0
    THEN { retryAfterMs[1] }
    ELSE LET exponentialDelay ==
                 config.backoffMs * Pow(config.backoffMultiplier, attempt - 1)
             clampedDelay == Min(exponentialDelay, config.maxBackoffMs)
         IN  { (clampedDelay * (3 * JitterSteps + 2 * k)) \div (4 * JitterSteps) :
                   k \in 0 .. JitterSteps - 1 }

\* Variant: the exponential delay is not clamped before the jitter.
calculateBackoffUnclamped(attempt, config, retryAfterMs) ==
    IF IsPresent(retryAfterMs) /\ retryAfterMs[1] > 0
    THEN { Min(retryAfterMs[1], config.maxBackoffMs) }
    ELSE LET exponentialDelay ==
                 config.backoffMs * Pow(config.backoffMultiplier, attempt - 1)
         IN  { (exponentialDelay * (3 * JitterSteps + 2 * k)) \div (4 * JitterSteps) :
                   k \in 0 .. JitterSteps - 1 }

\* Variant: the jitter band is 50% of the clamped delay on either side.
calculateBackoffWideJitter(attempt, config, retryAfterMs) ==
    IF IsPresent(retryAfterMs) /\ retryAfterMs[1] > 0
    THEN { Min(retryAfterMs[1], config.maxBackoffMs) }
    ELSE LET exponentialDelay ==
                 config.backoffMs * Pow(config.backoffMultiplier, attempt - 1)
             clampedDelay == Min(exponentialDelay, config.maxBackoffMs)
         IN  { (clampedDelay * (2 * JitterSteps + 4 * k)) \div (4 * JitterSteps) :
                   k \in 0 .. JitterSteps - 1 }

\* Variant: every hint that is present is taken, positive or not.
calculateBackoffAnyHint(attempt, config, retryAfterMs) ==
    IF IsPresent(retryAfterMs)
    THEN { Min(retryAfterMs[1], config.maxBackoffMs) }
    ELSE LET exponentialDelay ==
                 config.backoffMs * Pow(config.backoffMultiplier, attempt - 1)
             clampedDelay == Min(exponentialDelay, config.maxBackoffMs)
         IN  { (clampedDelay * (3 * JitterSteps + 2 * k)) \div (4 * JitterSteps) :
                   k \in 0 .. JitterSteps - 1 }

\* Variant: the power of the multiplier is added to the base, not multiplied
\* by it.
calculateBackoffAdditive(attempt, config, retryAfterMs) ==
    IF IsPresent(retryAfterMs) /\ retryAfterMs[1] > 0
    THEN { Min(retryAfterMs[1], config.maxBackoffMs) }
    ELSE LET exponentialDelay ==
                 config.backoffMs + Pow(config.backoffMultiplier, attempt - 1)
             clampedDelay == Min(exponentialDelay, config.maxBackoffMs)
         IN  { (clampedDelay * (3 * JitterSteps + 2 * k)) \div (4 * JitterSteps) :
                   k \in 0 .. JitterSteps - 1 }

\* The values calculateBackoff can return, one per value of Math.random():
\* floor(r * (maxDelay - minDelay) + minDelay) with r = k / JitterSteps is
\* floor(clamped * (3 * JitterSteps + 2 * k) / (4 * JitterSteps)).
calculateBackoff(attempt, config, retryAfterMs) ==
    IF IsPresent(retryAfterMs) /\ retryAfterMs[1] > 0
    THEN { Min(retryAfterMs[1], config.maxBackoffMs) }
    ELSE LET exponentialDelay ==
                 config.backoffMs * Pow(config.backoffMultiplier, attempt - 1)
             clampedDelay == Min(exponentialDelay, config.maxBackoffMs)
         IN  { (clampedDelay * (3 * JitterSteps + 2 * k)) \div (4 * JitterSteps) :
                   k \in 0 .. JitterSteps - 1 }

\* ------------------------------------------------------- src/src/utils.ts

\* jwt.split('.'): the segments between the dots.
RECURSIVE Split(_, _, _)
Split(s, i, cur) ==
    IF i > Len(s)
    THEN << cur >>
    ELSE IF s[i] = "."
         THEN << cur >> \o Split(s, i + 1, << >>)
         ELSE Split(s, i + 1, Append(cur, s[i]))

\* Variant: the segments may be empty (the pattern ends in * for +).
isValidSETEmptySegments(jwt) ==
    LET parts == Split(jwt, 1, << >>)
    IN  IF Len(parts) /= 3
        THEN FALSE
        ELSE \A p \in 1 .. 3 :
                 \A i \in 1 .. Len(parts[p]) : parts[p][i] \in Base64UrlChars

isValidSET(jwt) ==
    LET parts == Split(jwt, 1, << >>)
    IN  IF Len(parts) /= 3
        THEN FALSE
        ELSE \A p \in 1 .. 3 :
                 /\ Len(parts[p]) > 0
                 /\ \A i \in 1 .. Len(parts[p]) : parts[p][i] \in Base64UrlChars

\* 'Bearer ', the prefix of line 23.
BearerPrefix == <<"B", "e", "a", "r", "e", "r", " ">>

startsWith(s, prefix) ==
    Len(s) >= Len(prefix) /\ SubSeq(s, 1, Len(prefix)) = prefix

\* Variant: the prefix is recognised whatever the case of its first letter.
normalizeAuthTokenAnyCase(token) ==
    IF ~IsPresent(token) \/ Len(token[1]) = 0
    THEN Absent
    ELSE IF \/ startsWith(token[1], BearerPrefix)
            \/ startsWith(token[1], << "b" >> \o Tail(BearerPrefix))
         THEN Some(token[1])
         ELSE Some(BearerPrefix \o token[1])

\* Lines 17-29: undefined and the empty string give undefined.
normalizeAuthToken(token) ==
    IF ~IsPresent(token) \/ Len(token[1]) = 0
    THEN Absent
    ELSE IF startsWith(token[1], BearerPrefix)
         THEN Some(token[1])
         ELSE Some(BearerPrefix \o token[1])

\* Variant: the spread is taken the other way round, the defaults last.
mergeHeadersDefaultsWin(defaultHeaders, customHeaders) ==
    IF ~IsPresent(customHeaders)
    THEN defaultHeaders
    ELSE [ k \in DOMAIN defaultHeaders \cup DOMAIN customHeaders[1] |->
               IF k \in DOMAIN defaultHeaders
               THEN defaultHeaders[k]
               ELSE customHeaders[1][k] ]

\* Lines 31-39: the spread of customHeaders over defaultHeaders; a header map
\* is a function from header names to values.
mergeHeaders(defaultHeaders, customHeaders) ==
    IF ~IsPresent(customHeaders)
    THEN defaultHeaders
    ELSE [ k \in DOMAIN defaultHeaders \cup DOMAIN customHeaders[1] |->
               IF k \in DOMAIN customHeaders[1]
               THEN customHeaders[1][k]
               ELSE defaultHeaders[k] ]

\* ---------------------------------------------------- src/src/constants.ts

\* A header value that the program never looks into is a one-element sequence
\* holding the whole text.
CONTENT_TYPE_SET == << "application/secevent+jwt" >>

CONTENT_TYPE_JSON == << "application/json" >>

DEFAULT_USER_AGENT == << "SGNL-Action-Framework/1.0" >>

\* ------------------------------------------------- src/src/transmitter.ts

\* new URL(url) without a base: it parses exactly when the string starts
\* with a scheme (a letter, then letters, digits, '+', '-', '.') and a colon.
URLParses(url) ==
    \E i \in 2 .. Len(url) :
        /\ url[i] = ":"
        /\ url[1] \in Letters
        /\ \A j \in 2 .. i - 1 : url[j] \in Letters \cup Digits \cup {"+", "-", "."}

\* The href of new URL(url) for a destination that parses: the scheme is
\* lower-cased, the rest of a scheme://host string is kept.
ToLower(c) == IF c = "H" THEN "h" ELSE c

ParseURL(url) ==
    LET colon == CHOOSE i \in 1 .. Len(url) :
                     url[i] = ":" /\ \A j \in 1 .. i - 1 : url[j] /= ":"
    IN  [ i \in 1 .. Len(url) |-> IF i < colon THEN ToLower(url[i]) ELSE url[i] ]

\* Variant: the destination is not validated.
ValidationFailureJwtOnly(j, u) == ~isValidSET(j)

\* Lines 24-35: the two guards that throw ValidationError.
ValidationFailure(j, u) == ~isValidSET(j) \/ ~URLParses(u)

\* What a caller passes as options: every field may be left out.  These are
\* the calls that vary the status predicate and the retry policy.
OptionsSamples ==
    [ authToken : { Absent },
      headers : { Absent },
      timeout : { Absent },
      parseResponse : { Absent },
      validateStatus : { Absent, Some(Statuses) },
      retry : [ maxAttempts : { Absent } \cup { Some(n) : n \in 0 .. MaxAttempts },
                retryableStatuses : { Absent, Some({404}) },
                backoffMs : { Absent, Some(0) },
                maxBackoffMs : { Absent, Some(1502) },
                backoffMultiplier : { Absent } ] ]

\* Header maps a caller passes: one that overrides Content-Type and adds a
\* header of its own, one that overrides Authorization, one whose key
\* differs from Content-Type in case only.
HeaderSamples ==
    { [ k \in {"Content-Type", "X-Custom"} |->
            IF k = "Content-Type" THEN << "text/plain" >> ELSE << "v" >> ],
      [ k \in {"Authorization"} |-> << "Basic x" >> ],
      [ k \in {"content-type"} |-> << "text/plain" >> ] }

\* Credentials a caller passes: the empty string, a bare token, a token that
\* already carries the prefix.
AuthTokenSamples == { << >>, << "t" >>, BearerPrefix \o << "t" >> }

\* The calls that vary the request: credential, headers, deadline.
RequestOptionsSamples ==
    [ authToken : { Absent } \cup { Some(t) : t \in AuthTokenSamples },
      headers : { Absent } \cup { Some(h) : h \in HeaderSamples },
      timeout : { Absent, Some(100) },
      parseResponse : { Absent },
      validateStatus : { Absent },
      retry : [ maxAttempts : { Some(n) : n \in 1 .. MaxAttempts },
                retryableStatuses : { Absent },
                backoffMs : { Absent },
                maxBackoffMs : { Absent },
                backoffMultiplier : { Absent } ] ]

\* Variant: a retry object the caller passes replaces the default one as a
\* whole; a field it does not carry is lost (0, or no status).
mergedOptionsRetryReplaced(opts) ==
    [ authToken |-> opts.authToken,
      headers |-> IF IsPresent(opts.headers) THEN opts.headers[1] ELSE << >>,
      timeout |-> IF IsPresent(opts.timeout) THEN opts.timeout[1] ELSE DefaultTimeout,
      parseResponse |->
          IF IsPresent(opts.parseResponse)
          THEN opts.parseResponse[1]
          ELSE DefaultParseResponse,
      validateStatus |->
          IF IsPresent(opts.validateStatus)
          THEN opts.validateStatus[1]
          ELSE DefaultValidateStatus,
      retry |->
          IF \A f \in DOMAIN opts.retry : ~IsPresent(opts.retry[f])
          THEN DEFAULT_RETRY_CONFIG
          ELSE [ f \in DOMAIN DEFAULT_RETRY_CONFIG |->
                     IF IsPresent(opts.retry[f])
                     THEN opts.retry[f][1]
                     ELSE IF f = "retryableStatuses" THEN {} ELSE 0 ] ]

\* Lines 37-48: the options merged over the defaults.
mergedOptions(opts) ==
    [ authToken |-> opts.authToken,
      headers |-> IF IsPresent(opts.headers) THEN opts.headers[1] ELSE << >>,
      timeout |-> IF IsPresent(opts.timeout) THEN opts.timeout[1] ELSE DefaultTimeout,
      parseResponse |->
          IF IsPresent(opts.parseResponse)
          THEN opts.parseResponse[1]
          ELSE DefaultParseResponse,
      validateStatus |->
          IF IsPresent(opts.validateStatus)
          THEN opts.validateStatus[1]
          ELSE DefaultValidateStatus,
      retry |->
          [ f \in DOMAIN DEFAULT_RETRY_CONFIG |->
                IF IsPresent(opts.retry[f])
                THEN opts.retry[f][1]
                ELSE DEFAULT_RETRY_CONFIG[f] ] ]

\* ---------------------------------- createTransmitter (transmitter.ts 183)

\* An options object without a field.
NoOptions ==
    [ authToken |-> Absent, headers |-> Absent, timeout |-> Absent,
      parseResponse |-> Absent, validateStatus |-> Absent,
      retry |-> [ f \in DOMAIN DEFAULT_RETRY_CONFIG |-> Absent ] ]

\* Variant: a call that passes retry replaces the default retry as a whole.
TransmitterOptionsRetryReplaced(defaults, opts) ==
    LET d == IF IsPresent(defaults) THEN defaults[1] ELSE NoOptions
        dh == IF IsPresent(d.headers) THEN d.headers[1] ELSE << >>
        oh == IF IsPresent(opts.headers) THEN opts.headers[1] ELSE << >>
        pick(f) == IF IsPresent(opts[f]) THEN opts[f] ELSE d[f]
    IN  [ authToken |-> pick("authToken"),
          timeout |-> pick("timeout"),
          parseResponse |-> pick("parseResponse"),
          validateStatus |-> pick("validateStatus"),
          headers |-> Some([ k \in DOMAIN dh \cup DOMAIN oh |->
                                 IF k \in DOMAIN oh THEN oh[k] ELSE dh[k] ]),
          retry |-> IF \E f \in DOMAIN opts.retry : IsPresent(opts.retry[f])
                    THEN opts.retry
                    ELSE d.retry ]

\* Lines 187-198: the options the function returned by createTransmitter
\* passes to transmitSET; a call without options passes NoOptions.
TransmitterOptions(defaults, opts) ==
    LET d == IF IsPresent(defaults) THEN defaults[1] ELSE NoOptions
        dh == IF IsPresent(d.headers) THEN d.headers[1] ELSE << >>
        oh == IF IsPresent(opts.headers) THEN opts.headers[1] ELSE << >>
        pick(f) == IF IsPresent(opts[f]) THEN opts[f] ELSE d[f]
    IN  [ authToken |-> pick("authToken"),
          timeout |-> pick("timeout"),
          parseResponse |-> pick("parseResponse"),
          validateStatus |-> pick("validateStatus"),
          headers |-> Some([ k \in DOMAIN dh \cup DOMAIN oh |->
                                 IF k \in DOMAIN oh THEN oh[k] ELSE dh[k] ]),
          retry |-> [ f \in DOMAIN d.retry |->
                          IF IsPresent(opts.retry[f])
                          THEN opts.retry[f]
                          ELSE d.retry[f] ] ]

\* Defaults a transmitter is created with: none, one that sets every field
\* but three of retry, one that sets maxAttempts only.
TransmitterDefaultsSamples ==
    { Absent,
      Some([ authToken |-> Some(<< "t" >>),
             headers |-> Some([ k \in {"Content-Type", "X-Custom"} |->
                                    IF k = "Content-Type"
                                    THEN << "text/plain" >>
                                    ELSE << "v" >> ]),
             timeout |-> Some(100),
             parseResponse |-> Some(FALSE),
             validateStatus |-> Some(Statuses),
             retry |-> [ NoOptions.retry EXCEPT !.maxAttempts = Some(1),
                                                !.backoffMs = Some(0) ] ]),
      Some([ NoOptions EXCEPT !.retry.maxAttempts = Some(1) ]) }

\* Options a call of a transmitter passes.
CallOptionsSamples ==
    [ authToken : { Absent, Some(BearerPrefix \o << "t" >>) },
      headers : { Absent } \cup { Some(h) : h \in HeaderSamples },
      timeout : { Absent, Some(5) },
      parseResponse : { Absent, Some(TRUE) },
      validateStatus : { Absent, Some({200}) },
      retry : [ maxAttempts : { Absent, Some(2) },
                retryableStatuses : { Absent, Some({404}) },
                backoffMs : { Absent },
                maxBackoffMs : { Absent, Some(1502) },
                backoffMultiplier : { Absent } ] ]

VARIABLES
    jwt,            \* the token passed to transmitSET
    url,            \* the destination passed to transmitSET
    options,        \* the options passed to transmitSET
    pc,             \* where the call is suspended: idle, fetching, reading, waiting, done
    attempt,        \* the loop variable of line 70
    lastResponse,   \* line 68
    lastError,      \* line 67: the name of the error class, or "none"
    timer,          \* the pending deadline timer (line 74): its duration, or Absent
    waitMs,         \* the duration of the pending delay() of line 122 or 143
    result,         \* what the call returned or threw
    dispatches,     \* history: the number of fetch calls
    waits,          \* history: the number of delay calls
    seen,           \* history: the kinds of outcome of the attempts completed
    lastOutcome,    \* history: the kind of outcome of the last completed attempt
    request,        \* history: the arguments of the last fetch call
    inflight,       \* history: the number of fetch calls not yet settled
    aborted,        \* history: whether the last AbortController was aborted
    caught,         \* history: the classes of the errors caught so far
    probe,          \* the last application of a pure helper, with its result
    defaultOptions, \* the object a reusable transmitter closes over, if any
    createdWith,    \* history: defaultOptions as createTransmitter received it
    callOptions,    \* the options object the caller passed to this call
    other           \* a second call of the same transmitter, suspended

vars ==
    << jwt, url, options, pc, attempt, lastResponse, lastError, timer, waitMs,
       result, dispatches, waits, seen, lastOutcome, request, inflight, aborted,
       caught, probe, defaultOptions, createdWith, callOptions, other >>

cfg == mergedOptions(options)

\* Line 32: const parsedUrl.
parsedUrl == ParseURL(url)

\* Lines 50-61: the base headers, with Authorization when there is a token.
BaseHeaders(authToken) ==
    [ k \in {"Content-Type", "Accept", "User-Agent"}
             \cup (IF IsPresent(authToken) THEN {"Authorization"} ELSE {}) |->
          CASE k = "Content-Type" -> CONTENT_TYPE_SET
            [] k = "Accept" -> CONTENT_TYPE_JSON
            [] k = "User-Agent" -> DEFAULT_USER_AGENT
            [] k = "Authorization" -> authToken[1] ]

\* Lines 57-64: const headers.
ComposeHeaders(config) ==
    mergeHeaders(BaseHeaders(normalizeAuthToken(config.authToken)),
                 Some(config.headers))

headers == ComposeHeaders(cfg)

\* Variant: the request carries no method, so fetch sends a GET.
RequestGet(destination, h, token) ==
    [ method |-> "GET", url |-> destination, headers |-> h, body |-> token ]

\* Lines 78-83: the arguments of fetch.
Request(destination, h, token) ==
    [ method |-> "POST", url |-> destination, headers |-> h, body |-> token ]

\* Variant: an AbortError is not told apart from a connection error.
ClassifyErrorAllNetwork(rawName) == "NetworkError"

\* Lines 126-134: the class of the error the inner catch records.
ClassifyError(rawName) ==
    IF rawName = "AbortError" THEN "TimeoutError" ELSE "NetworkError"

NoProbe == [ fn |-> "none" ]

\* There is no second call.
NoCall == [ pc |-> "none" ]

NoResult ==
    [ kind |-> "none", statusCode |-> 0, retryAfter |-> Absent, body |-> "",
      error |-> "", retryable |-> FALSE ]

\* A thrown error: kind "throw", error the name of its class.
Thrown(name) == [ NoResult EXCEPT !.kind = "throw", !.error = name ]

\* Lines 96-101.
SuccessResult(response) ==
    [ NoResult EXCEPT !.kind = "success", !.statusCode = response.status,
                      !.retryAfter = response.retryAfter, !.body = "read" ]

\* Variant: a status failure is thrown as a TransmissionError.
InLoopFailureThrown(response, config) == Thrown("TransmissionError")

\* Variant: the flag is canRetry, which is FALSE where the Failure is built.
InLoopFailureFlagFromCutoff(response, config) ==
    [ NoResult EXCEPT !.kind = "failed", !.statusCode = response.status,
                      !.retryAfter = response.retryAfter, !.body = "read",
                      !.error = "HTTP status", !.retryable = FALSE ]

\* Lines 107-114.
InLoopFailure(response, config) ==
    [ NoResult EXCEPT !.kind = "failed", !.statusCode = response.status,
                      !.retryAfter = response.retryAfter, !.body = "read",
                      !.error = "HTTP status",
                      !.retryable =
                          isRetryableStatus(response.status, config.retryableStatuses) ]

\* error.message of the errors of lines 128-133.
MessageOf(errorName) ==
    IF errorName = "TimeoutError" THEN "Request timed out" ELSE "Network error"

\* Variant: the last response is ignored after the loop.
AfterLoopAlwaysThrows(lr, le) ==
    Thrown(IF le /= "none" THEN le ELSE "TransmissionError")

\* Variant: the code after the loop ends without a throw when no response
\* was kept, so the call returns nothing.
AfterLoopFallsThrough(lr, le) ==
    IF IsPresent(lr)
    THEN [ NoResult EXCEPT
             !.kind = "failed",
             !.statusCode = lr[1].status,
             !.retryAfter = lr[1].retryAfter,
             !.body = IF lr[1].bodyUsed THEN "" ELSE "read",
             !.error = IF le /= "none" THEN MessageOf(le) ELSE "HTTP status",
             !.retryable = TRUE ]
    ELSE NoResult

\* Variant: the error text of the Failure built after the loop is that of
\* the HTTP status, whatever the last error was.
AfterLoopHttpError(lr, le) ==
    IF IsPresent(lr)
    THEN [ NoResult EXCEPT
             !.kind = "failed",
             !.statusCode = lr[1].status,
             !.retryAfter = lr[1].retryAfter,
             !.body = IF lr[1].bodyUsed THEN "" ELSE "read",
             !.error = "HTTP status",
             !.retryable = TRUE ]
    ELSE Thrown(IF le /= "none" THEN le ELSE "TransmissionError")

\* Variant: with no response kept, the error thrown after the loop is a
\* TransmissionError, whatever the last error was.
AfterLoopWrapsError(lr, le) ==
    IF IsPresent(lr)
    THEN [ NoResult EXCEPT
             !.kind = "failed",
             !.statusCode = lr[1].status,
             !.retryAfter = lr[1].retryAfter,
             !.body = IF lr[1].bodyUsed THEN "" ELSE "read",
             !.error = IF le /= "none" THEN MessageOf(le) ELSE "HTTP status",
             !.retryable = TRUE ]
    ELSE Thrown("TransmissionError")

\* Variant: the body of the Failure built after the loop is the body read
\* before, though the body of lastResponse is used up.
AfterLoopBodyReused(lr, le) ==
    IF IsPresent(lr)
    THEN [ NoResult EXCEPT
             !.kind = "failed",
             !.statusCode = lr[1].status,
             !.retryAfter = lr[1].retryAfter,
             !.body = "read",
             !.error = IF le /= "none" THEN MessageOf(le) ELSE "HTTP status",
             !.retryable = TRUE ]
    ELSE Thrown(IF le /= "none" THEN le ELSE "TransmissionError")

\* Variant: the flag of the Failure built after the loop is the membership
\* of its status code in retryableStatuses, as in the loop.
AfterLoopFlagFromStatus(lr, le) ==
    IF IsPresent(lr)
    THEN [ NoResult EXCEPT
             !.kind = "failed",
             !.statusCode = lr[1].status,
             !.retryAfter = lr[1].retryAfter,
             !.body = IF lr[1].bodyUsed THEN "" ELSE "read",
             !.error = IF le /= "none" THEN MessageOf(le) ELSE "HTTP status",
             !.retryable = isRetryableStatus(lr[1].status, cfg.retry.retryableStatuses) ]
    ELSE Thrown(IF le /= "none" THEN le ELSE "TransmissionError")

\* Lines 154-180: what the call ends with once the loop is left.
AfterLoop(lr, le) ==
    IF IsPresent(lr)
    THEN [ NoResult EXCEPT
             !.kind = "failed",
             !.statusCode = lr[1].status,
             !.retryAfter = lr[1].retryAfter,
             !.body = IF lr[1].bodyUsed THEN "" ELSE "read",
             !.error = IF le /= "none" THEN MessageOf(le) ELSE "HTTP status",
             !.retryable = TRUE ]
    ELSE Thrown(IF le /= "none" THEN le ELSE "TransmissionError")

\* Variants: the loop bound is off by one, either way.
LoopContinuesOneMore(a, maxAttempts) == a <= maxAttempts + 1

LoopContinuesOneLess(a, maxAttempts) == a < maxAttempts

\* Line 70: the loop condition.
LoopContinues(a, maxAttempts) == a <= maxAttempts

\* Variant: the retry policy is consulted before validateStatus.
InterpretRetryFirst(status, a, config) ==
    IF shouldRetry(Some(status), a, config.retry)
    THEN "retry"
    ELSE IF status \in config.validateStatus THEN "success" ELSE "failed"

\* Variant: a status of 400 or more is never a success.
InterpretOkOnly(status, a, config) ==
    IF status \in config.validateStatus /\ status < 400
    THEN "success"
    ELSE IF ~shouldRetry(Some(status), a, config.retry) THEN "failed" ELSE "retry"

\* Lines 92-115: what the loop does with a response that was read.
Interpret(status, a, config) ==
    IF status \in config.validateStatus
    THEN "success"
    ELSE IF ~shouldRetry(Some(status), a, config.retry) THEN "failed" ELSE "retry"

\* Variant: the outer catch rethrows every error.
RethrownAlways(errorName) == TRUE

\* Lines 145-151: the outer catch rethrows a ValidationError only.
Rethrown(errorName) == errorName = "ValidationError"

\* The kind of an attempt that read a response, by the resolved configuration.
\* History only.
KindOf(status) ==
    IF status \in cfg.validateStatus
    THEN "accepted"
    ELSE IF status \in cfg.retry.retryableStatuses THEN "retryable" ELSE "rejected"

Init ==
    /\ jwt \in JwtSamples
    /\ url \in UrlSamples
    /\ options \in OptionsSamples
    /\ pc = "idle"
    /\ attempt = 0
    /\ lastResponse = Absent
    /\ lastError = "none"
    /\ timer = Absent
    /\ waitMs = 0
    /\ result = NoResult
    /\ dispatches = 0
    /\ waits = 0
    /\ seen = {}
    /\ lastOutcome = "none"
    /\ request = Absent
    /\ inflight = 0
    /\ aborted = FALSE
    /\ caught = {}
    /\ probe = NoProbe
    /\ defaultOptions = Absent
    /\ createdWith = Absent
    /\ callOptions = options
    /\ other = NoCall

\* Variant: the timer is left pending.
clearTimeoutSkipped(t) == t

\* clearTimeout(timeoutId) of lines 85 and 124: the timer t of the attempt is
\* no longer pending.
clearTimeout(t) == Absent

\* Lines 70-83 and 154-180: the loop test with attempt = a; either the next
\* fetch is issued under a fresh deadline timer, or the loop is left.
EnterLoop(a, lr, le) ==
    /\ attempt' = a
    /\ waitMs' = 0
    /\ IF LoopContinues(a, cfg.retry.maxAttempts)
       THEN /\ pc' = "fetching"
            /\ timer' = Some(cfg.timeout)
            /\ dispatches' = dispatches + 1
            /\ request' = Some(Request(parsedUrl, headers, jwt))
            /\ result' = result
       ELSE /\ pc' = "done"
            /\ timer' = Absent
            /\ dispatches' = dispatches
            /\ request' = request
            /\ result' = AfterLoop(lr, le)

\* History: a step that issues a fetch adds one to the fetches pending and
\* starts with a fresh AbortController; pending and ab are the values the
\* step has without that.
Track(pending, ab) ==
    IF dispatches' = dispatches + 1
    THEN inflight' = pending + 1 /\ aborted' = FALSE
    ELSE inflight' = pending /\ aborted' = ab

\* Lines 19-83: the call validates its inputs and reaches its first await.
Call ==
    /\ pc = "idle"
    /\ IF ValidationFailure(jwt, url)
       THEN /\ pc' = "done"
            /\ result' = Thrown("ValidationError")
            /\ UNCHANGED << attempt, timer, waitMs, dispatches, request >>
       ELSE EnterLoop(1, lastResponse, lastError)
    /\ Track(inflight, aborted)
    /\ UNCHANGED << jwt, url, options, probe, caught, defaultOptions,
                    createdWith, callOptions, other, lastResponse, lastError, waits, seen,
                    lastOutcome >>

\* Lines 85-90: fetch resolves; the timer is cleared, the response is kept
\* and the read of its body is started.
FetchResolves ==
    /\ pc = "fetching"
    /\ \E response \in Responses :
           lastResponse' = Some([ response EXCEPT !.bodyUsed = TRUE ])
    /\ timer' = clearTimeout(timer)
    /\ pc' = "reading"
    /\ inflight' = inflight - 1
    /\ UNCHANGED << jwt, url, options, probe, caught, defaultOptions,
                    createdWith, callOptions, other, attempt, lastError, waitMs, result,
                    dispatches, waits, seen, lastOutcome, request, aborted >>

\* Lines 92-122: the body was read; success, failure or a backoff wait.
BodyRead ==
    /\ pc = "reading"
    /\ LET response == lastResponse[1]
           step == Interpret(response.status, attempt, cfg)
       IN  /\ seen' = seen \cup { KindOf(response.status) }
           /\ lastOutcome' = KindOf(response.status)
           /\ IF step = "success"
              THEN /\ pc' = "done"
                   /\ result' = SuccessResult(response)
                   /\ UNCHANGED << waitMs, waits >>
              ELSE IF step = "failed"
                   THEN /\ pc' = "done"
                        /\ result' = InLoopFailure(response, cfg.retry)
                        /\ UNCHANGED << waitMs, waits >>
                   ELSE /\ pc' = "waiting"
                        /\ \E now \in ClockSamples :
                               waitMs' \in calculateBackoff(attempt, cfg.retry,
                                              parseRetryAfter(response.retryAfter, now))
                        /\ waits' = waits + 1
                        /\ result' = result
    /\ UNCHANGED << jwt, url, options, probe, caught, defaultOptions,
                    createdWith, callOptions, other, attempt, lastResponse, lastError, timer,
                    dispatches, request, inflight, aborted >>

\* Variant: the hint of the response kept in lastResponse is handed over.
TransportRetryAfterMsOfLastResponse(lr) ==
    IF IsPresent(lr)
    THEN parseRetryAfter(lr[1].retryAfter, 30000)
    ELSE Absent

\* Line 142: the hint calculateBackoff gets in the catch, where it is called
\* without its third argument, whatever lastResponse (lr) holds.
TransportRetryAfterMs(lr) == Absent

\* Lines 123-151: the inner catch with an error named rawName, and the outer
\* catch when the inner one throws; pending is the number of fetches still
\* pending when the error is caught.
TransportFailure(rawName, kind, pending) ==
    /\ lastError' = ClassifyError(rawName)
    /\ seen' = seen \cup { kind }
    /\ lastOutcome' = kind
    /\ IF ~shouldRetry(Absent, attempt, cfg.retry)
       THEN IF Rethrown(ClassifyError(rawName))
            THEN /\ pc' = "done"
                 /\ result' = Thrown(ClassifyError(rawName))
                 /\ timer' = clearTimeout(timer)
                 /\ UNCHANGED << attempt, waitMs, dispatches, waits, request >>
            ELSE /\ EnterLoop(attempt + 1, lastResponse, ClassifyError(rawName))
                 /\ waits' = waits
       ELSE /\ pc' = "waiting"
            /\ waitMs' \in calculateBackoff(attempt, cfg.retry,
                                           TransportRetryAfterMs(lastResponse))
            /\ waits' = waits + 1
            /\ timer' = clearTimeout(timer)
            /\ UNCHANGED << attempt, result, dispatches, request >>
    /\ Track(pending, rawName = "AbortError")
    /\ caught' = caught \cup { ClassifyError(rawName) }
    /\ UNCHANGED << jwt, url, options, probe, defaultOptions, createdWith,
                    callOptions, other, lastResponse >>

\* fetch rejects with a connection error.
FetchRejects ==
    /\ pc = "fetching"
    /\ TransportFailure("TypeError", "transport", inflight - 1)

\* The deadline timer fires: controller.abort() makes fetch reject with an
\* AbortError.
DeadlineFires ==
    /\ pc = "fetching"
    /\ IsPresent(timer)
    /\ TransportFailure("AbortError", "transport", inflight - 1)

\* response.text() rejects: the error is caught by the inner catch.
BodyReadFails ==
    /\ pc = "reading"
    /\ TransportFailure("TypeError", "bodyError", inflight)

\* The delay of line 122 or 143 elapses and the loop goes on.
DelayElapses ==
    /\ pc = "waiting"
    /\ EnterLoop(attempt + 1, lastResponse, lastError)
    /\ Track(inflight, aborted)
    /\ UNCHANGED << jwt, url, options, probe, caught, defaultOptions,
                    createdWith, callOptions, other, lastResponse, lastError, waits, seen,
                    lastOutcome >>

Next ==
    \/ Call
    \/ FetchResolves
    \/ BodyRead
    \/ BodyReadFails
    \/ FetchRejects
    \/ DeadlineFires
    \/ DelayElapses

Spec == Init /\ [][Next]_vars

\* The calls that vary what is sent: credential, caller headers, deadline and
\* the spelling of the destination, under one or two attempts.
RequestInit ==
    /\ jwt \in JwtSamples
    /\ url \in UrlSamples \cup { UpperCaseUrl }
    /\ options \in { o \in RequestOptionsSamples :
                        o.retry.maxAttempts \in { Some(1), Some(2) } }
    /\ pc = "idle"
    /\ attempt = 0
    /\ lastResponse = Absent
    /\ lastError = "none"
    /\ timer = Absent
    /\ waitMs = 0
    /\ result = NoResult
    /\ dispatches = 0
    /\ waits = 0
    /\ seen = {}
    /\ lastOutcome = "none"
    /\ request = Absent
    /\ inflight = 0
    /\ aborted = FALSE
    /\ caught = {}
    /\ probe = NoProbe
    /\ defaultOptions = Absent
    /\ createdWith = Absent
    /\ callOptions = options
    /\ other = NoCall

RequestSpec == RequestInit /\ [][Next]_vars

\* The call under the scheduling the runtime gives it: a pending fetch
\* settles (response, error or abort), a pending body read settles and a
\* pending delay elapses.
LiveSpec == Spec /\ WF_vars(Next)

\* ------------------------------------- two calls of one reusable transmitter

\* The state of the call that is running, as one record.
ActiveCall ==
    [ jwt |-> jwt, url |-> url, options |-> options, callOptions |-> callOptions,
      pc |-> pc, attempt |-> attempt, lastResponse |-> lastResponse,
      lastError |-> lastError, timer |-> timer, waitMs |-> waitMs,
      result |-> result, dispatches |-> dispatches, waits |-> waits,
      seen |-> seen, lastOutcome |-> lastOutcome, request |-> request,
      inflight |-> inflight, aborted |-> aborted, caught |-> caught ]

\* A call of the transmitter that has not been made yet: pc is "new".
FreshCall(token, destination, opts) ==
    [ jwt |-> token, url |-> destination, options |-> NoOptions,
      callOptions |-> opts, pc |-> "new", attempt |-> 0,
      lastResponse |-> Absent, lastError |-> "none", timer |-> Absent,
      waitMs |-> 0, result |-> NoResult, dispatches |-> 0, waits |-> 0,
      seen |-> {}, lastOutcome |-> "none", request |-> Absent,
      inflight |-> 0, aborted |-> FALSE, caught |-> {} ]

\* The variables of the running call take the values of the record c.
Resume(c) ==
    /\ jwt' = c.jwt
    /\ url' = c.url
    /\ options' = c.options
    /\ callOptions' = c.callOptions
    /\ pc' = c.pc
    /\ attempt' = c.attempt
    /\ lastResponse' = c.lastResponse
    /\ lastError' = c.lastError
    /\ timer' = c.timer
    /\ waitMs' = c.waitMs
    /\ result' = c.result
    /\ dispatches' = c.dispatches
    /\ waits' = c.waits
    /\ seen' = c.seen
    /\ lastOutcome' = c.lastOutcome
    /\ request' = c.request
    /\ inflight' = c.inflight
    /\ aborted' = c.aborted
    /\ caught' = c.caught

\* Options the calls of the two-call model pass: none, an override of
\* retry.maxAttempts, an override of a header.
PairCallOptions ==
    { NoOptions,
      [ NoOptions EXCEPT !.retry.maxAttempts = Some(2) ],
      [ NoOptions EXCEPT !.headers = Some([ k \in {"X-Custom"} |-> << "w" >> ]) ] }

\* Variants: the merge writes into the object the transmitter closes over,
\* all of it or its retry object only.
DefaultsAfterCallAssigned(defaults, opts) ==
    Some(TransmitterOptions(defaults, opts))

DefaultsAfterCallRetryAssigned(defaults, opts) ==
    Some([ (IF IsPresent(defaults) THEN defaults[1] ELSE NoOptions)
               EXCEPT !.retry = TransmitterOptions(defaults, opts).retry ])

\* Lines 187-198: what defaultOptions holds after a call; the spreads copy
\* from it into a fresh object and nothing is assigned to it.
DefaultsAfterCall(defaults, opts) == defaults

\* A transmitter was created with some defaults; two calls of it are about to
\* be made.
TransmitterInit ==
    /\ defaultOptions \in TransmitterDefaultsSamples \ { Absent }
    /\ createdWith = defaultOptions
    /\ \E c \in { FreshCall(<<"a", ".", "b", ".", "c">>,
                            <<"h", ":", "/", "/", "x">>, o) : o \in PairCallOptions } :
           /\ jwt = c.jwt
           /\ url = c.url
           /\ options = c.options
           /\ callOptions = c.callOptions
           /\ pc = c.pc
           /\ attempt = c.attempt
           /\ lastResponse = c.lastResponse
           /\ lastError = c.lastError
           /\ timer = c.timer
           /\ waitMs = c.waitMs
           /\ result = c.result
           /\ dispatches = c.dispatches
           /\ waits = c.waits
           /\ seen = c.seen
           /\ lastOutcome = c.lastOutcome
           /\ request = c.request
           /\ inflight = c.inflight
           /\ aborted = c.aborted
           /\ caught = c.caught
    /\ other \in { FreshCall(<<"a", ".", "b", ".", "c">>,
                             <<"h", ":", "/", "/", "x">>, o) : o \in PairCallOptions }
    /\ probe = NoProbe

\* Lines 186-199: the returned function is called; it merges the call's
\* options over the defaults and calls transmitSET with the result.
Invoke ==
    /\ pc = "new"
    /\ options' = TransmitterOptions(defaultOptions, callOptions)
    /\ defaultOptions' = DefaultsAfterCall(defaultOptions, callOptions)
    /\ pc' = "idle"
    /\ UNCHANGED << jwt, url, probe, caught, createdWith, callOptions, other,
                    attempt,
                    lastResponse, lastError, timer, waitMs, result, dispatches,
                    waits, seen, lastOutcome, request, inflight, aborted >>

\* The event loop turns to the other call: the running call is suspended at
\* an await (or has not been made, or has ended) and the other call resumes.
Switch ==
    /\ pc /= "idle"
    /\ other.pc /= "none"
    /\ Resume(other)
    /\ other' = ActiveCall
    /\ UNCHANGED << probe, defaultOptions, createdWith >>

\* The call has ended and the caller makes a further call of the same
\* transmitter.
NewCall ==
    /\ pc = "done"
    /\ other.pc /= "none"
    /\ \E o \in PairCallOptions : Resume(FreshCall(jwt, url, o))
    /\ UNCHANGED << probe, defaultOptions, createdWith, other >>

TransmitterNext ==
    \/ Invoke
    \/ Call
    \/ FetchResolves
    \/ BodyRead
    \/ BodyReadFails
    \/ FetchRejects
    \/ DeadlineFires
    \/ DelayElapses
    \/ Switch
    \/ NewCall

TransmitterSpec == TransmitterInit /\ [][TransmitterNext]_vars

\* ------------------------------------------------ the pure helpers, applied

\* Resolved retry configurations the helpers are applied to.
RetryConfigSamples ==
    [ maxAttempts : 0 .. MaxAttempts,
      retryableStatuses : { DEFAULT_RETRY_CONFIG.retryableStatuses, {404}, {} },
      backoffMs : { 0, 10, DEFAULT_RETRY_CONFIG.backoffMs },
      maxBackoffMs : { 1502, DEFAULT_RETRY_CONFIG.maxBackoffMs },
      backoffMultiplier : { 1, DEFAULT_RETRY_CONFIG.backoffMultiplier, 3 } ]

\* Status codes shouldRetry is asked about, undefined among them.
StatusCodeSamples == { Absent } \cup { Some(s) : s \in Statuses \cup {429} }

\* Hints calculateBackoff is given, in milliseconds, undefined among them.
RetryAfterMsSamples == { Absent, Some(0), Some(0 - 2000), Some(2000), Some(20000) }

\* No call is in progress while the helpers are applied on their own.
PureInit ==
    /\ jwt = << >>
    /\ url = << >>
    /\ options \in { o \in OptionsSamples :
                        /\ o.validateStatus = Absent
                        /\ \A f \in DOMAIN o.retry : o.retry[f] = Absent }
    /\ pc = "idle"
    /\ attempt = 0
    /\ lastResponse = Absent
    /\ lastError = "none"
    /\ timer = Absent
    /\ waitMs = 0
    /\ result = NoResult
    /\ dispatches = 0
    /\ waits = 0
    /\ seen = {}
    /\ lastOutcome = "none"
    /\ request = Absent
    /\ inflight = 0
    /\ aborted = FALSE
    /\ caught = {}
    /\ probe = NoProbe
    /\ defaultOptions = Absent
    /\ createdWith = Absent
    /\ callOptions = options
    /\ other = NoCall

engineVars ==
    << jwt, url, options, pc, attempt, lastResponse, lastError, timer, waitMs,
       result, dispatches, waits, seen, lastOutcome, request, inflight, aborted,
       caught, defaultOptions, createdWith, callOptions, other >>

\* shouldRetry is applied, once, to a status code, an attempt number and a
\* configuration.
ApplyShouldRetry ==
    /\ probe.fn = "none"
    /\ \E statusCode \in StatusCodeSamples, a \in 0 .. MaxAttempts + 1,
          config \in RetryConfigSamples :
           probe' = [ fn |-> "shouldRetry", statusCode |-> statusCode,
                      attempt |-> a, config |-> config,
                      out |-> shouldRetry(statusCode, a, config) ]
    /\ UNCHANGED engineVars

\* calculateBackoff is applied, once, to an attempt number, a configuration
\* and a hint; out is any of the values it can return.
ApplyCalculateBackoff ==
    /\ probe.fn = "none"
    /\ \E a \in 1 .. MaxAttempts + 2, config \in RetryConfigSamples,
          retryAfterMs \in RetryAfterMsSamples :
           \E out \in calculateBackoff(a, config, retryAfterMs) :
               probe' = [ fn |-> "calculateBackoff", attempt |-> a,
                          config |-> config, retryAfterMs |-> retryAfterMs,
                          out |-> out ]
    /\ UNCHANGED engineVars

\* Credentials normalizeAuthToken is applied to: undefined, the samples of
\* the calls, 'bearer t', 'Bearer' without the space, 'Bearer ' alone.
AuthTokenProbeSamples ==
    { Absent }
        \cup { Some(t) : t \in AuthTokenSamples }
        \cup { Some(<<"b", "e", "a", "r", "e", "r", " ", "t">>),
               Some(<<"B", "e", "a", "r", "e", "r">>),
               Some(BearerPrefix) }

\* normalizeAuthToken is applied, once, to a credential, and once more to
\* its own result.
ApplyNormalizeAuthToken ==
    /\ probe.fn = "none"
    /\ \E token \in AuthTokenProbeSamples :
           probe' = [ fn |-> "normalizeAuthToken", token |-> token,
                      out |-> normalizeAuthToken(token),
                      again |-> normalizeAuthToken(normalizeAuthToken(token)) ]
    /\ UNCHANGED engineVars

\* Values isValidSET is applied to: the tokens of the calls, a token of four
\* segments, one without a dot, one with a dot at either end, one with an
\* upper-case letter, a digit and a dash, one with '=', and a value that is
\* no string.
SetProbeSamples ==
    { [ isString |-> TRUE, text |-> t ] :
          t \in JwtSamples
                  \cup { <<"a", ".", "b", ".", "c", ".", "x">>,
                         <<"a", "b", "c">>,
                         <<".", "a", ".", "b">>,
                         <<"a", ".", "b", ".">>,
                         <<"H", ".", "0", ".", "-">>,
                         <<"a", ".", "b", ".", "=">> } }
        \cup { [ isString |-> FALSE, text |-> << >> ] }

\* Lines 1-4 of isValidSET: a value that is no string is rejected before it
\* is split.
isValidSETValue(v) == IF ~v.isString THEN FALSE ELSE isValidSET(v.text)

\* isValidSET is applied, once, to a value.
ApplyIsValidSET ==
    /\ probe.fn = "none"
    /\ \E v \in SetProbeSamples :
           probe' = [ fn |-> "isValidSET", value |-> v,
                      out |-> isValidSETValue(v) ]
    /\ UNCHANGED engineVars

\* The merge of createTransmitter is applied, once, to the defaults of a
\* transmitter and the options of a call.
ApplyCreateTransmitter ==
    /\ probe.fn = "none"
    /\ \E defaults \in TransmitterDefaultsSamples, opts \in CallOptionsSamples :
           probe' = [ fn |-> "createTransmitter", defaults |-> defaults,
                      options |-> opts,
                      out |-> TransmitterOptions(defaults, opts) ]
    /\ UNCHANGED engineVars

\* Values of the Retry-After header handed to parseRetryAfter: absent, empty,
\* counts of seconds with and without a sign or a leading blank, a count
\* followed by other text, a text that is neither number nor date, and an
\* HTTP-date.
RetryAfterProbeSamples ==
    RetryAfterSamples
        \cup { Some(<< >>),
               Some(<<"+", "2">>),
               Some(<<" ", "2">>),
               Some(<<"2", "x">>),
               Some(<<"x">>),
               Some(<<"-">>),
               Some(HttpDateSample) }

\* parseRetryAfter is applied, once, to a header value at a time of the clock.
ApplyParseRetryAfter ==
    /\ probe.fn = "none"
    /\ \E h \in RetryAfterProbeSamples, now \in ClockSamples :
           probe' = [ fn |-> "parseRetryAfter", header |-> h, now |-> now,
                      out |-> parseRetryAfter(h, now) ]
    /\ UNCHANGED engineVars

\* Texts of a response body: empty, two JSON documents and two texts that
\* JSON.parse rejects.
BodyTextSamples ==
    { << >>, <<"{", "}">>, <<"1">>, <<"{">>, <<"<", "h", ">">> }

\* JSON.parse(text): the parsed value, or Absent when it throws a SyntaxError.
JSONParse(text) ==
    IF text = <<"{", "}">> THEN Some([ type |-> "object", keys |-> {} ])
    ELSE IF text = <<"1">> THEN Some([ type |-> "number", value |-> 1 ])
    ELSE Absent

\* Values of the content-type header of a response, as the pieces of its
\* text.
ContentTypeSamples ==
    { Absent,
      Some(<<"application/json">>),
      Some(<<"application/json", "; charset=utf-8">>),
      Some(<<"text/plain">>),
      Some(<<"Application/JSON">>) }

\* String.prototype.includes on the pieces of a header value.
includes(value, piece) == \E i \in 1..Len(value) : value[i] = piece

\* The responses handed to parseResponseBody: whether reading the text
\* succeeds, the text read and the content-type header.
BodyResponseSamples ==
    [ readable : BOOLEAN, text : BodyTextSamples, contentType : ContentTypeSamples ]

RaisedBody == [ kind |-> "raised" ]
TextBody(text) == [ kind |-> "text", value |-> text ]
JsonBody(value) == [ kind |-> "json", value |-> value ]

\* Variant: a text that JSON.parse rejects raises.
parseResponseBodyParseThrows(response, parseJson) ==
    IF ~response.readable THEN RaisedBody
    ELSE IF ~parseJson \/ response.text = << >> THEN TextBody(response.text)
    ELSE IF IsPresent(response.contentType)
               /\ includes(response.contentType[1], CONTENT_TYPE_JSON[1])
         THEN IF IsPresent(JSONParse(response.text))
              THEN JsonBody(JSONParse(response.text)[1])
              ELSE RaisedBody
         ELSE TextBody(response.text)

\* Lines 49-71: what parseResponseBody returns, or that it raised.
parseResponseBody(response, parseJson) ==
    IF ~response.readable THEN RaisedBody
    ELSE IF ~parseJson \/ response.text = << >> THEN TextBody(response.text)
    ELSE IF IsPresent(response.contentType)
               /\ includes(response.contentType[1], CONTENT_TYPE_JSON[1])
         THEN IF IsPresent(JSONParse(response.text))
              THEN JsonBody(JSONParse(response.text)[1])
              ELSE TextBody(response.text)
         ELSE TextBody(response.text)

\* parseResponseBody is applied, once, to a response and a parse flag.
ApplyParseResponseBody ==
    /\ probe.fn = "none"
    /\ \E response \in BodyResponseSamples, parseJson \in BOOLEAN :
           probe' = [ fn |-> "parseResponseBody", response |-> response,
                      parseJson |-> parseJson,
                      out |-> parseResponseBody(response, parseJson) ]
    /\ UNCHANGED engineVars

PureNext ==
    \/ ApplyShouldRetry
    \/ ApplyCalculateBackoff
    \/ ApplyNormalizeAuthToken
    \/ ApplyIsValidSET
    \/ ApplyCreateTransmitter
    \/ ApplyParseRetryAfter
    \/ ApplyParseResponseBody

PureSpec == PureInit /\ [][PureNext]_vars

\* ------------------------------------------------------------ properties

Terminated == pc = "done"

RetryableSet == cfg.retry.retryableStatuses

\* A token of exactly three non-empty dot-separated segments of URL-safe
\* base64 characters, stated on the positions of its two dots.
WellFormedToken(t) ==
    \E i, j \in 1 .. Len(t) :
        /\ 1 < i /\ i + 1 < j /\ j < Len(t)
        /\ t[i] = "." /\ t[j] = "."
        /\ \A k \in (1 .. Len(t)) \ {i, j} : t[k] \in Base64UrlChars

\* C1: the number of POST dispatches of a call never exceeds the resolved
\* retry.maxAttempts, whatever the responses and transport failures are.
C1_DispatchesBounded == dispatches <= cfg.retry.maxAttempts

\* A call that used its whole budget of at least two attempts, on a mix of
\* transport failures and retryable status failures.
C1_Witness ==
    /\ Terminated
    /\ dispatches = cfg.retry.maxAttempts
    /\ dispatches >= 2
    /\ {"transport", "retryable"} \subseteq seen

C3_AllRetryableExhausts ==
    (Terminated /\ seen = {"retryable"}) =>
        /\ dispatches = cfg.retry.maxAttempts
        /\ result.kind = "failed"
        /\ result.statusCode = lastResponse[1].status
        /\ result.retryable

\* Three retryable responses under maxAttempts = 3.
C3_Witness ==
    /\ Terminated
    /\ seen = {"retryable"}
    /\ dispatches = 3
    /\ result.kind = "failed"

C5_AllTransportRaises ==
    (Terminated /\ seen = {"transport"}) =>
        /\ dispatches = cfg.retry.maxAttempts
        /\ result.kind = "throw"
        /\ result.error \in {"NetworkError", "TimeoutError"}

\* Two failed dispatches under maxAttempts = 2.
C5_Witness ==
    /\ Terminated
    /\ seen = {"transport"}
    /\ dispatches = 2
    /\ cfg.retry.maxAttempts = 2
    /\ result.kind = "throw"

\* C6 as stated: whenever the attempt that exhausts the attempt cap fails at
\* the transport level, the call ends with a raised transport failure and
\* not with an Outcome, regardless of what earlier attempts produced.
C6_Original ==
    (Terminated /\ lastOutcome = "transport") => result.kind = "throw"

\* C6 amended: when the attempt that exhausts the cap fails at the transport
\* level, the call throws that transport error if no attempt of the call
\* obtained a response, and otherwise returns Failure with the status code
\* of the most recent response and retryable = TRUE.
C6_ExhaustedTransportFailure ==
    (Terminated /\ lastOutcome = "transport") =>
        IF IsPresent(lastResponse)
        THEN /\ result.kind = "failed"
             /\ result.statusCode = lastResponse[1].status
             /\ result.retryable
        ELSE /\ result.kind = "throw"
             /\ result.error = lastError
             /\ result.error \in {"NetworkError", "TimeoutError"}

\* The last attempt failed at the transport level after an earlier attempt
\* had obtained a response: the call returned Failure.
C6_Witness ==
    /\ Terminated
    /\ lastOutcome = "transport"
    /\ IsPresent(lastResponse)
    /\ result.kind = "failed"
    /\ dispatches = cfg.retry.maxAttempts

\* C7: a call throws TimeoutError or NetworkError only if no attempt of it
\* obtained a response; and a call whose attempts are exhausted without any
\* response ends by throwing, with no Outcome.
C7_RaisesIffNoResponse ==
    /\ (result.kind = "throw" /\ result.error \in {"TimeoutError", "NetworkError"}) =>
           /\ ~IsPresent(lastResponse)
           /\ seen = {"transport"}
    /\ (Terminated /\ ~ValidationFailure(jwt, url) /\ ~IsPresent(lastResponse)) =>
           /\ result.kind = "throw"
           /\ dispatches = cfg.retry.maxAttempts

\* A transport error thrown after two attempts without a response.
C7_Witness ==
    /\ Terminated
    /\ result.kind = "throw"
    /\ result.error \in {"TimeoutError", "NetworkError"}
    /\ dispatches >= 2
    /\ ~IsPresent(lastResponse)

\* C8: an HTTP-level failure is never thrown: when the final attempt of a
\* call obtained a response whose status is not accepted, the call returns
\* an Outcome with status failed and that status code; and a call that
\* throws did not obtain a response at its final attempt.
C8_HttpFailureReturned ==
    /\ (/\ Terminated
        /\ lastOutcome \in {"retryable", "rejected", "bodyError"}
        /\ lastResponse[1].status \notin cfg.validateStatus) =>
           /\ result.kind = "failed"
           /\ result.statusCode = lastResponse[1].status
    /\ result.kind = "throw" =>
           lastOutcome \notin {"accepted", "retryable", "rejected", "bodyError"}

\* A Failure returned at the last permitted attempt, second of two.
C8_Witness ==
    /\ Terminated
    /\ lastOutcome \in {"retryable", "rejected"}
    /\ attempt = 2
    /\ cfg.retry.maxAttempts = 2
    /\ result.kind = "failed"

\* C9: with a token that is not well formed or a destination that does not
\* parse, the call throws ValidationError at once: no dispatch, no backoff
\* wait, for every retry configuration.
C9_ValidationIsTerminal ==
    (pc /= "idle" /\ (~WellFormedToken(jwt) \/ ~URLParses(url))) =>
        /\ Terminated
        /\ result = Thrown("ValidationError")
        /\ dispatches = 0
        /\ waits = 0

\* A well-formed token with a destination that does not parse, rejected.
C9_Witness ==
    /\ Terminated
    /\ WellFormedToken(jwt)
    /\ ~URLParses(url)
    /\ result.kind = "throw"
    /\ result.error = "ValidationError"

\* C10 as stated: in every Failure outcome the retryable flag equals the
\* membership of the outcome's status code in retryableStatuses.
C10_Original ==
    result.kind = "failed" =>
        (result.retryable <=> result.statusCode \in RetryableSet)

\* C10 amended: in a Failure returned from inside the loop (lines 107-114:
\* the attempt read a response that was not accepted and no retry is
\* permitted) the flag equals the membership of the status code in
\* retryableStatuses, also at the last permitted attempt; a Failure built
\* after the loop from the last response (lines 166-173) has retryable =
\* TRUE whatever its status code.
C10_RetryableFlag ==
    result.kind = "failed" =>
        IF lastOutcome \in {"retryable", "rejected"}
        THEN result.retryable <=> result.statusCode \in RetryableSet
        ELSE result.retryable

\* A Failure with a retryable status returned at the last permitted attempt.
C10_Witness ==
    /\ result.kind = "failed"
    /\ lastOutcome = "retryable"
    /\ attempt = cfg.retry.maxAttempts
    /\ attempt >= 2
    /\ result.retryable

C12_AttemptsSequential ==
    /\ [](inflight <= 1 /\ (inflight = 1 <=> pc = "fetching"))
    /\ [][dispatches' /= dispatches =>
              /\ dispatches' = dispatches + 1
              /\ attempt' = dispatches'
              /\ inflight = 0
              /\ ~IsPresent(timer)
              /\ pc \in {"idle", "waiting"}
              /\ pc = "waiting" =>
                     /\ attempt = dispatches
                     /\ waits = dispatches
                     /\ lastOutcome /= "none"]_vars

\* The third fetch of a call is pending, after two waits.
C12_Witness ==
    pc = "fetching" /\ inflight = 1 /\ dispatches = 3 /\ waits = 2

\* C13: a fetch that fails at the transport level (deadline abort or
\* connection error) at an attempt below maxAttempts is followed at once by
\* a backoff wait, and a backoff wait is followed only by the fetch of the
\* next attempt; this holds whatever retryableStatuses is, and a timeout and
\* a connection error differ only in the error that is recorded.
C13_TransportFailureRetried ==
    /\ [][(pc = "fetching" /\ pc' /= "reading"
              /\ attempt < cfg.retry.maxAttempts) =>
              /\ pc' = "waiting"
              /\ waits' = waits + 1
              /\ dispatches' = dispatches
              /\ attempt' = attempt
              /\ lastOutcome' = "transport"
              /\ lastError' \in {"TimeoutError", "NetworkError"}]_vars
    /\ [][pc = "waiting" =>
              /\ pc' = "fetching"
              /\ attempt' = attempt + 1
              /\ dispatches' = dispatches + 1]_vars

\* A timeout at the first attempt of a call whose retryableStatuses is
\* [404] has led to the second fetch.
C13_Witness ==
    /\ pc = "fetching" /\ attempt = 2 /\ waits = 1
    /\ lastOutcome = "transport" /\ lastError = "TimeoutError"
    /\ cfg.retry.retryableStatuses = {404}

\* C14: while the fetch of an attempt is pending, a deadline timer of the
\* resolved timeout (the caller's, else 30000 ms) is pending with it; when
\* the timer fires first the fetch is aborted, the attempt is a transport
\* failure recorded as TimeoutError, and with maxAttempts = 1 the call ends
\* by raising TimeoutError.
C14_DeadlineAborts ==
    /\ pc = "fetching" =>
           /\ inflight = 1
           /\ ~aborted
           /\ timer = Some(IF IsPresent(options.timeout)
                           THEN options.timeout[1]
                           ELSE DefaultTimeout)
    /\ aborted =>
           /\ inflight = 0
           /\ ~IsPresent(timer)
           /\ lastOutcome = "transport"
           /\ lastError = "TimeoutError"
    /\ (aborted /\ cfg.retry.maxAttempts = 1) =>
           (Terminated /\ result = Thrown("TimeoutError"))

\* A call with timeout 100 and maxAttempts 1 whose only fetch was aborted.
C14_Witness ==
    /\ Terminated /\ aborted /\ dispatches = 1
    /\ options.timeout = Some(100) /\ cfg.retry.maxAttempts = 1
    /\ result.kind = "throw" /\ result.error = "TimeoutError"

C16_ShouldRetry ==
    probe.fn = "shouldRetry" =>
        /\ probe.attempt >= probe.config.maxAttempts => probe.out = FALSE
        /\ (probe.attempt < probe.config.maxAttempts
               /\ probe.statusCode = Absent) => probe.out = TRUE
        /\ (probe.attempt < probe.config.maxAttempts
               /\ probe.statusCode /= Absent) =>
               probe.out = (probe.statusCode[1] \in probe.config.retryableStatuses)

\* shouldRetry answered true for a 503 at attempt 2 of 3 under the default
\* retryable statuses.
C16_Witness ==
    /\ probe.fn = "shouldRetry" /\ probe.out = TRUE
    /\ probe.statusCode = Some(503) /\ probe.attempt = 2
    /\ probe.config.maxAttempts = 3
    /\ probe.config.retryableStatuses = DEFAULT_RETRY_CONFIG.retryableStatuses

\* The hint, in milliseconds, that the retry-after values "2" and "20" of the
\* model stand for; 0 for the values that give no positive hint.
HintMs(retryAfter) ==
    IF retryAfter = Some(<<"2">>)
    THEN 2000
    ELSE IF retryAfter = Some(<<"2", "0">>) THEN 20000 ELSE 0

\* C17: when a response with a retryable status carries a retry-after header
\* that stands for a positive hint h, the wait before the next attempt is
\* exactly min(h, maxBackoffMs): no jitter, and the same at every attempt.
C17_HintedWait ==
    (pc = "waiting" /\ lastOutcome = "retryable"
         /\ HintMs(lastResponse[1].retryAfter) > 0) =>
        waitMs = Min(HintMs(lastResponse[1].retryAfter), cfg.retry.maxBackoffMs)

\* After the second attempt a hint of 20 seconds is cut to the default
\* maxBackoffMs.
C17_Witness ==
    /\ pc = "waiting" /\ lastOutcome = "retryable" /\ attempt = 2
    /\ lastResponse[1].retryAfter = Some(<<"2", "0">>)
    /\ waitMs = 10000

\* C18, as stated: the wait calculateBackoff returns never exceeds
\* maxBackoffMs, with or without a hint, for every attempt number and every
\* configuration.
C18_Original ==
    probe.fn = "calculateBackoff" => probe.out <= probe.config.maxBackoffMs

\* C18: with a positive hint the wait never exceeds maxBackoffMs; without one
\* the wait never exceeds 1.25 times maxBackoffMs, the clamped delay plus its
\* jitter, for every attempt number and every configuration.
C18_WaitBounded ==
    probe.fn = "calculateBackoff" =>
        IF IsPresent(probe.retryAfterMs) /\ probe.retryAfterMs[1] > 0
        THEN probe.out <= probe.config.maxBackoffMs
        ELSE 4 * probe.out <= 5 * probe.config.maxBackoffMs

\* Without a hint, a delay clamped to the default maxBackoffMs came out above
\* it after the jitter.
C18_Witness ==
    /\ probe.fn = "calculateBackoff" /\ probe.retryAfterMs = Absent
    /\ probe.config.maxBackoffMs = DEFAULT_RETRY_CONFIG.maxBackoffMs
    /\ probe.config.backoffMs = DEFAULT_RETRY_CONFIG.backoffMs
    /\ probe.out > probe.config.maxBackoffMs

\* The clamped delay c of the pending wait: min(backoffMs *
\* backoffMultiplier^(k-1), maxBackoffMs) for the attempt k that failed.
ClampedDelay ==
    Min(cfg.retry.backoffMs * Pow(cfg.retry.backoffMultiplier, attempt - 1),
        cfg.retry.maxBackoffMs)

\* The pending wait follows a response that carried a positive hint.
Hinted ==
    lastOutcome = "retryable" /\ HintMs(lastResponse[1].retryAfter) > 0

\* C19, as stated: without a positive hint the wait after attempt k, after a
\* status failure or a transport failure, lies within [0.75 * c, 1.25 * c].
C19_Original ==
    (pc = "waiting" /\ ~Hinted) =>
        (3 * ClampedDelay <= 4 * waitMs /\ 4 * waitMs <= 5 * ClampedDelay)

\* C19: without a positive hint the wait after attempt k, after a status
\* failure or a transport failure, is an integer within
\* [floor(0.75 * c), 1.25 * c]: the floor of a value of [0.75 * c, 1.25 * c),
\* below 0.75 * c by less than one when 0.75 * c is no integer.
C19_JitteredWait ==
    (pc = "waiting" /\ ~Hinted) =>
        /\ waitMs \in Nat
        /\ (3 * ClampedDelay) \div 4 <= waitMs
        /\ 4 * waitMs <= 5 * ClampedDelay

\* After a transport failure at attempt 2 the wait is below 0.75 * c, for a
\* clamped delay c that is no multiple of 4.
C19_Witness ==
    /\ pc = "waiting" /\ lastOutcome = "transport" /\ attempt = 2
    /\ ClampedDelay = cfg.retry.maxBackoffMs
    /\ 4 * waitMs < 3 * ClampedDelay

\* C20: every fetch of a call is a POST to the one parsed destination, with
\* the caller's token, unchanged, as its body and with the header set that
\* was composed before the first attempt; the request of a later attempt is
\* the request of the attempt before it.
C20_RequestFixed ==
    /\ [](dispatches >= 1 =>
              /\ request /= Absent
              /\ request[1].method = "POST"
              /\ request[1].url = parsedUrl
              /\ request[1].body = jwt
              /\ request[1].headers = headers)
    /\ [][(dispatches >= 1 /\ dispatches' = dispatches + 1) =>
              request' = request]_vars

\* The second fetch of a call with a credential, to a destination that was
\* passed with an upper-case scheme.
C20_Witness ==
    /\ pc = "fetching" /\ dispatches = 2 /\ url = UpperCaseUrl
    /\ request[1].url = <<"h", ":", "/", "/", "x">>
    /\ request[1].body = jwt
    /\ "Authorization" \in DOMAIN request[1].headers

\* The headers the caller passed, as a map (empty when none were passed).
CallerHeaders == IF IsPresent(options.headers) THEN options.headers[1] ELSE << >>

\* The caller passed a credential that is not the empty string.
HasCredential == IsPresent(options.authToken) /\ Len(options.authToken[1]) > 0

\* C21: the header set that is sent has exactly the keys Content-Type,
\* Accept and User-Agent, Authorization when a credential was passed, and
\* the caller's keys; a key the caller passed carries the caller's value,
\* also Authorization; every other key carries its base value; a caller key
\* that differs from a base key in case only stands beside it.
C21_HeaderMerge ==
    dispatches >= 1 =>
        LET sent == request[1].headers
        IN  /\ DOMAIN sent =
                   {"Content-Type", "Accept", "User-Agent"}
                       \cup (IF HasCredential THEN {"Authorization"} ELSE {})
                       \cup DOMAIN CallerHeaders
            /\ \A k \in DOMAIN CallerHeaders : sent[k] = CallerHeaders[k]
            /\ "Content-Type" \notin DOMAIN CallerHeaders =>
                   sent["Content-Type"] = << "application/secevent+jwt" >>
            /\ "Accept" \notin DOMAIN CallerHeaders =>
                   sent["Accept"] = << "application/json" >>
            /\ "User-Agent" \notin DOMAIN CallerHeaders =>
                   sent["User-Agent"] = << "SGNL-Action-Framework/1.0" >>
            /\ (HasCredential /\ "Authorization" \notin DOMAIN CallerHeaders) =>
                   sent["Authorization"] =
                       <<"B", "e", "a", "r", "e", "r", " ", "t">>

\* A call with a credential whose caller headers override Authorization: the
\* caller's value is sent.
C21_Witness ==
    /\ dispatches >= 1 /\ HasCredential
    /\ "Authorization" \in DOMAIN CallerHeaders
    /\ request[1].headers["Authorization"] = << "Basic x" >>

\* The string starts with the seven characters of 'Bearer ', in this case.
HasBearerPrefix(t) ==
    /\ Len(t) >= 7
    /\ t[1] = "B" /\ t[2] = "e" /\ t[3] = "a" /\ t[4] = "r"
    /\ t[5] = "e" /\ t[6] = "r" /\ t[7] = " "

\* C22: normalizeAuthToken gives undefined for an absent or empty
\* credential; it gives the credential itself when that starts with
\* 'Bearer ' (case-sensitive) and 'Bearer ' followed by the credential
\* otherwise; applied to its own result it gives that result again.
C22_NormalizeAuthToken ==
    probe.fn = "normalizeAuthToken" =>
        /\ (probe.token = Absent \/ probe.token = Some(<< >>)) =>
               probe.out = Absent
        /\ (probe.token /= Absent /\ probe.token /= Some(<< >>)) =>
               IF HasBearerPrefix(probe.token[1])
               THEN probe.out = probe.token
               ELSE probe.out =
                        Some(<<"B", "e", "a", "r", "e", "r", " ">> \o probe.token[1])
        /\ probe.again = probe.out

\* 'bearer t' does not carry the prefix and gets it.
C22_Witness ==
    /\ probe.fn = "normalizeAuthToken"
    /\ probe.token = Some(<<"b", "e", "a", "r", "e", "r", " ", "t">>)
    /\ Len(probe.out[1]) = 15
    /\ probe.again = probe.out

\* C23: isValidSET accepts a value exactly when it is a string of three
\* non-empty segments, separated by two dots, of the characters A-Z, a-z,
\* 0-9, '-' and '_'; any other segment count, an empty segment, another
\* character or a value that is no string is rejected.
C23_IsValidSET ==
    probe.fn = "isValidSET" =>
        probe.out = (probe.value.isString /\ WellFormedToken(probe.value.text))

\* A token of four segments is rejected.
C23_Witness ==
    /\ probe.fn = "isValidSET" /\ probe.out = FALSE
    /\ probe.value.text = <<"a", ".", "b", ".", "c", ".", "x">>

\* C24: the options a transmitter passes on are the call's options merged
\* over its defaults: each of authToken, timeout, parseResponse and
\* validateStatus is the call's when the call gives it and the default
\* otherwise; headers has the keys of both, a key of the call with the call's
\* value and any other with the default's; each field of retry is the call's
\* when the call gives it and the default's otherwise.
C24_TransmitterMerge ==
    probe.fn = "createTransmitter" =>
        LET d == IF probe.defaults = Absent THEN NoOptions ELSE probe.defaults[1]
            o == probe.options
            dh == IF d.headers = Absent THEN << >> ELSE d.headers[1]
            oh == IF o.headers = Absent THEN << >> ELSE o.headers[1]
        IN  /\ \A f \in {"authToken", "timeout", "parseResponse", "validateStatus"} :
                   probe.out[f] = IF o[f] /= Absent THEN o[f] ELSE d[f]
            /\ probe.out.headers /= Absent
            /\ DOMAIN probe.out.headers[1] = DOMAIN dh \cup DOMAIN oh
            /\ \A k \in DOMAIN oh : probe.out.headers[1][k] = oh[k]
            /\ \A k \in DOMAIN dh \ DOMAIN oh : probe.out.headers[1][k] = dh[k]
            /\ \A f \in DOMAIN DEFAULT_RETRY_CONFIG :
                   probe.out.retry[f] =
                       IF o.retry[f] /= Absent THEN o.retry[f] ELSE d.retry[f]

\* A call that overrides maxBackoffMs only keeps the default maxAttempts and
\* backoffMs of its transmitter, and a call header stands beside the default
\* headers.
C24_Witness ==
    /\ probe.fn = "createTransmitter"
    /\ probe.options.retry.maxAttempts = Absent
    /\ probe.options.retry.maxBackoffMs = Some(1502)
    /\ probe.out.retry.maxAttempts = Some(1)
    /\ probe.out.retry.backoffMs = Some(0)
    /\ probe.out.retry.maxBackoffMs = Some(1502)
    /\ DOMAIN probe.out.headers[1] = {"Content-Type", "X-Custom", "Authorization"}

\* The configuration a call resolves from the options it was called with.
ResolvedBy(c) == mergedOptions(c.options)

\* C25: no call changes the object the transmitter was created with or the
\* options object of a caller, and whatever calls were made before, with
\* whatever overrides, a call without overrides resolves the configuration
\* that the defaults the transmitter was created with give over the library
\* defaults.
C25_DefaultsNotMutated ==
    /\ [](defaultOptions = createdWith)
    /\ [](\A c \in {ActiveCall, other} :
              (c.pc \notin {"new", "idle"} /\ c.callOptions = NoOptions) =>
                  ResolvedBy(c) =
                      mergedOptions(TransmitterOptions(createdWith, NoOptions)))
    /\ [][(pc \notin {"new", "done"} /\ other' = other) =>
              callOptions' = callOptions]_vars

\* A call without overrides is waiting for its response while a call of the
\* same transmitter that overrode retry.maxAttempts has ended.
C25_Witness ==
    /\ pc = "fetching" /\ callOptions = NoOptions
    /\ other.pc = "done" /\ other.callOptions.retry.maxAttempts = Some(2)
    /\ cfg.retry.maxAttempts = 1

\* The options a call is given by its transmitter, from the call's own
\* options and the defaults the transmitter was created with.
OwnOptions(c) == TransmitterOptions(createdWith, c.callOptions)

\* C26: of two calls of one transmitter whose steps interleave in any order,
\* each resolves its configuration from its own options and the defaults of
\* the transmitter, sends its own token under its own headers, makes no more
\* dispatches than its own maxAttempts, and ends with a result built from
\* the last response to its own dispatches (or raises when it had none); a
\* step of one call changes nothing of the other.
C26_CallsIndependent ==
    /\ [](\A c \in {ActiveCall, other} :
              /\ c.pc \notin {"new", "idle"} => c.options = OwnOptions(c)
              /\ c.dispatches <= mergedOptions(OwnOptions(c)).retry.maxAttempts
              /\ c.request /= Absent =>
                     /\ c.request[1].body = c.jwt
                     /\ c.request[1].headers =
                            ComposeHeaders(mergedOptions(OwnOptions(c)))
              /\ (c.pc = "done" /\ c.result.kind \in {"success", "failed"}) =>
                     /\ c.lastResponse /= Absent
                     /\ c.result.statusCode = c.lastResponse[1].status
              /\ (c.pc = "done" /\ c.result.kind = "throw") =>
                     c.lastResponse = Absent)
    /\ [][other' /= other => (other' = ActiveCall /\ ActiveCall' = other)]_vars

\* Two calls with different options are both under way: one reads a response
\* body while the other waits before its second attempt.
C26_Witness ==
    /\ pc = "reading" /\ dispatches = 1
    /\ other.pc = "waiting" /\ other.dispatches = 1
    /\ other.callOptions /= callOptions

\* C27: each field of the resolved retry configuration is the caller's when
\* the caller passed it and otherwise its default: maxAttempts 3,
\* retryableStatuses [429, 502, 503, 504], backoffMs 1000, maxBackoffMs
\* 10000, backoffMultiplier 2; so a call that passes neither maxAttempts nor
\* retryableStatuses, whatever else it passes, and gets a default-retryable
\* status at every attempt ends after exactly 3 dispatches.
C27_RetryDefaults ==
    /\ cfg.retry.maxAttempts =
           (IF options.retry.maxAttempts /= Absent
            THEN options.retry.maxAttempts[1] ELSE 3)
    /\ cfg.retry.retryableStatuses =
           (IF options.retry.retryableStatuses /= Absent
            THEN options.retry.retryableStatuses[1] ELSE {429, 502, 503, 504})
    /\ cfg.retry.backoffMs =
           (IF options.retry.backoffMs /= Absent
            THEN options.retry.backoffMs[1] ELSE 1000)
    /\ cfg.retry.maxBackoffMs =
           (IF options.retry.maxBackoffMs /= Absent
            THEN options.retry.maxBackoffMs[1] ELSE 10000)
    /\ cfg.retry.backoffMultiplier =
           (IF options.retry.backoffMultiplier /= Absent
            THEN options.retry.backoffMultiplier[1] ELSE 2)
    /\ (Terminated /\ seen = {"retryable"}
           /\ options.retry.maxAttempts = Absent
           /\ options.retry.retryableStatuses = Absent) =>
           dispatches = 3

\* A call that overrides maxBackoffMs only ended after three dispatches that
\* were all answered with 503.
C27_Witness ==
    /\ Terminated /\ seen = {"retryable"} /\ dispatches = 3
    /\ options.retry.maxAttempts = Absent
    /\ options.retry.retryableStatuses = Absent
    /\ options.retry.maxBackoffMs = Some(1502)
    /\ result.kind = "failed" /\ result.statusCode = 503

\* C28: the retry-after hint parseRetryAfter yields is absent or a
\* non-negative number of milliseconds: a count of seconds n gives n*1000, an
\* HTTP-date in the future gives the milliseconds that remain, and an absent,
\* an empty, an unparseable value or a date that is not in the future gives no
\* hint; a negative delay is never yielded.  The code yields -2000 for the
\* header value "-2".
C28_HintNonNegative ==
    probe.fn = "parseRetryAfter" =>
        /\ probe.out = Absent \/ probe.out[1] >= 0
        /\ (probe.header \in {Absent, Some(<< >>), Some(<<"x">>), Some(<<"-">>)})
               => probe.out = Absent
        /\ probe.header = Some(<<"2", "0">>) => probe.out = Some(20000)
        /\ probe.header = Some(<<"0">>) => probe.out = Some(0)
        /\ probe.header = Some(HttpDateSample) =>
               probe.out = (IF probe.now < 60000 THEN Some(60000 - probe.now)
                            ELSE Absent)

\* C29: parseResponseBody does not raise on content it cannot parse.  Once
\* the text of the response is read it returns that text as it is when the
\* parse flag is false, when the text is empty or when the content-type does
\* not contain "application/json"; otherwise it returns the parsed JSON value
\* when the text parses and the text as it is when it does not.
C29_ParseResponseBody ==
    (probe.fn = "parseResponseBody" /\ probe.response.readable) =>
        LET text == probe.response.text
            contentType == probe.response.contentType
            isJson == /\ contentType /= Absent
                      /\ \E i \in 1..Len(contentType[1]) :
                             contentType[1][i] = "application/json"
            asText == ~probe.parseJson \/ text = << >> \/ ~isJson
        IN  /\ probe.out.kind /= "raised"
            /\ asText => probe.out = [ kind |-> "text", value |-> text ]
            /\ (~asText /\ text \in {<<"{", "}">>, <<"1">>}) =>
                   /\ probe.out.kind = "json"
                   /\ probe.out.value = JSONParse(text)[1]
            /\ (~asText /\ text \notin {<<"{", "}">>, <<"1">>}) =>
                   probe.out = [ kind |-> "text", value |-> text ]

\* A JSON response whose text does not parse was handed over with the parse
\* flag set, and its text came back.
C29_Witness ==
    /\ probe.fn = "parseResponseBody"
    /\ probe.response.readable /\ probe.parseJson
    /\ probe.response.contentType = Some(<<"application/json", "; charset=utf-8">>)
    /\ probe.response.text = <<"{">>
    /\ probe.out = [ kind |-> "text", value |-> <<"{">> ]

\* The status code and the headers of a response kept in lastResponse.
ReceivedOf(lr) ==
    IF IsPresent(lr)
    THEN Some([ status |-> lr[1].status, retryAfter |-> lr[1].retryAfter ])
    ELSE Absent

\* C30: when the loop is left because the attempts ran out, with no return
\* from inside it, and a response was received during the call, the call
\* returns a Failure with the status code and the headers of the response
\* received last and with retryable = TRUE; lastResponse is that response:
\* it is set at every receipt of a response and changes at no other step.
C30_FailureAfterLoop ==
    /\ []((/\ Terminated
           /\ attempt > cfg.retry.maxAttempts
           /\ IsPresent(lastResponse)) =>
              /\ result.kind = "failed"
              /\ result.statusCode = lastResponse[1].status
              /\ result.retryAfter = lastResponse[1].retryAfter
              /\ result.retryable)
    /\ [][(pc = "fetching" /\ pc' = "reading") => IsPresent(lastResponse')]_vars
    /\ [][ReceivedOf(lastResponse') /= ReceivedOf(lastResponse) =>
              (pc = "fetching" /\ pc' = "reading")]_vars

\* A call of three attempts got a 404 whose body could not be read, then a
\* 503 with a Retry-After header, then no response: it ended, after the
\* loop, with a Failure of status 503.
C30_Witness ==
    /\ Terminated
    /\ attempt > cfg.retry.maxAttempts
    /\ dispatches = 3
    /\ seen = {"bodyError", "retryable", "transport"}
    /\ lastOutcome = "transport"
    /\ lastResponse /= Absent
    /\ lastResponse[1].status = 503
    /\ result.kind = "failed"
    /\ result.statusCode = 503
    /\ result.retryAfter = Some(<<"2">>)
    /\ result.retryable

\* C31 as stated: the status code and the body of every Failure are those of
\* the response the final attempt of the call obtained, so the fetch of the
\* final attempt resolved.
C31_Original ==
    result.kind = "failed" =>
        /\ lastOutcome \in {"retryable", "rejected", "bodyError"}
        /\ result.statusCode = lastResponse[1].status
        /\ lastOutcome \in {"retryable", "rejected"} => result.body = "read"

\* C31 amended: the status code of every Failure is that of the response the
\* call received last.  A Failure returned from inside the loop (lines
\* 107-114) is built at the attempt that received and read that response and
\* carries the body read; a Failure built after the loop (lines 155-173:
\* the final attempt ended in the catch) carries the empty body, and the
\* response it reports is that of an earlier attempt when the final attempt
\* received none.
C31_FailureFromLastResponse ==
    result.kind = "failed" =>
        /\ IsPresent(lastResponse)
        /\ result.statusCode = lastResponse[1].status
        /\ IF lastOutcome \in {"retryable", "rejected"}
           THEN /\ attempt <= cfg.retry.maxAttempts
                /\ result.body = "read"
           ELSE /\ attempt > cfg.retry.maxAttempts
                /\ lastOutcome \in {"transport", "bodyError"}
                /\ result.body = ""

\* A Failure whose status code is that of the first attempt: the attempts
\* after it received no response.
C31_Witness ==
    /\ result.kind = "failed"
    /\ lastOutcome = "transport"
    /\ seen = {"retryable", "transport"}
    /\ dispatches = 2
    /\ result.statusCode = 503
    /\ result.body = ""

\* C32: a backoff wait follows a failed attempt exactly when another attempt
\* follows it.  A call that has ended made one wait less than dispatches,
\* and none when it made no dispatch; a wait starts only where the call does
\* not end, after an attempt below maxAttempts, and the step after a wait is
\* the next dispatch; so no wait follows the attempt that ends the call.
C32_WaitsBetweenAttempts ==
    /\ [](Terminated =>
              waits = (IF dispatches = 0 THEN 0 ELSE dispatches - 1))
    /\ [][waits' /= waits =>
              /\ waits' = waits + 1
              /\ pc \in {"fetching", "reading"}
              /\ pc' = "waiting"
              /\ result' = result
              /\ attempt < cfg.retry.maxAttempts
              /\ waits' = dispatches]_vars
    /\ [][pc = "waiting" =>
              /\ pc' = "fetching"
              /\ dispatches' = dispatches + 1
              /\ waits' = waits]_vars
    /\ [][(pc \in {"fetching", "reading"} /\ pc' = "done") => waits' = waits]_vars

\* A call of three dispatches ended after two waits: one after a response
\* with a retryable status, one after a transport failure.
C32_Witness ==
    /\ Terminated
    /\ dispatches = 3
    /\ waits = 2
    /\ seen = {"retryable", "transport", "accepted"}
    /\ result.kind = "success"

\* C33: the wait after a transport failure is computed without a hint: it is
\* one of the jittered values of the clamped delay of the attempt that
\* failed, whatever retry-after value the response of an earlier attempt,
\* or of the same attempt when its body could not be read, carried.
C33_TransportWaitUnhinted ==
    (pc = "waiting" /\ lastOutcome \in {"transport", "bodyError"}) =>
        waitMs \in { (ClampedDelay * (3 * JitterSteps + 2 * k)) \div (4 * JitterSteps) :
                         k \in 0 .. JitterSteps - 1 }

\* The first attempt got a response with a hint of 20 seconds, the second
\* attempt failed in transport, and the wait after it is not the hinted one.
C33_Witness ==
    /\ pc = "waiting" /\ lastOutcome = "transport" /\ attempt = 2
    /\ seen = {"retryable", "transport"}
    /\ lastResponse /= Absent
    /\ lastResponse[1].retryAfter = Some(<<"2", "0">>)
    /\ waitMs < 10000
    /\ waitMs = (ClampedDelay * 3) \div 4

\* C34: a retry-after header that stands for zero or for a negative number
\* of seconds ("0", "-2") is treated as no hint: the wait after the response
\* is one of the jittered values of the clamped delay of the attempt, and so
\* not zero unless the clamped delay is zero.
C34_NonPositiveHintIgnored ==
    (/\ pc = "waiting"
     /\ lastOutcome = "retryable"
     /\ lastResponse[1].retryAfter \in {Some(<<"0">>), Some(<<"-", "2">>)}) =>
        /\ waitMs \in { (ClampedDelay * (3 * JitterSteps + 2 * k)) \div (4 * JitterSteps) :
                            k \in 0 .. JitterSteps - 1 }
        /\ ClampedDelay > 0 => waitMs > 0

\* After a 503 with the header "0" at the first attempt, under the default
\* retry options, the wait is 750 ms.
C34_Witness ==
    /\ pc = "waiting" /\ lastOutcome = "retryable" /\ attempt = 1
    /\ lastResponse[1].retryAfter = Some(<<"0">>)
    /\ cfg.retry = DEFAULT_RETRY_CONFIG
    /\ waitMs = 750

\* C35: with backoffMs = 0 and a hint that is absent or not positive,
\* calculateBackoff returns exactly 0, at every attempt number, for every
\* multiplier and every maxBackoffMs.
C35_ZeroBase ==
    (/\ probe.fn = "calculateBackoff"
     /\ probe.config.backoffMs = 0
     /\ (probe.retryAfterMs = Absent \/ probe.retryAfterMs[1] <= 0)) =>
        probe.out = 0

\* calculateBackoff gave 0 at attempt 5 for the base 0, the multiplier 3 and
\* a hint of -2000.
C35_Witness ==
    /\ probe.fn = "calculateBackoff"
    /\ probe.config.backoffMs = 0
    /\ probe.config.backoffMultiplier = 3
    /\ probe.attempt = 5
    /\ probe.retryAfterMs = Some(0 - 2000)
    /\ probe.out = 0

\* C36: every call that passes validation dispatches at least one request
\* before it ends, for every resolved retry configuration.  The code takes
\* retry.maxAttempts = 0 as it is: the loop of line 70 is not entered and the
\* call throws with no dispatch.
C36_AtLeastOneDispatch ==
    (Terminated /\ ~ValidationFailure(jwt, url)) => dispatches >= 1

\* C37: the error a call throws once its attempts are used up describes the
\* last attempt only: TimeoutError when the fetch of the last attempt was
\* aborted by the deadline, NetworkError when it failed with a connection
\* error, whatever errors were caught at the attempts before it.
C37_RaisedErrorOfLastAttempt ==
    (Terminated /\ result.kind = "throw" /\ dispatches >= 1) =>
        /\ lastOutcome = "transport"
        /\ attempt > cfg.retry.maxAttempts
        /\ result.error = (IF aborted THEN "TimeoutError" ELSE "NetworkError")
        /\ result.error = lastError

\* A call of three attempts threw NetworkError: its last fetch failed with a
\* connection error, and a fetch before it was aborted by the deadline.
C37_Witness ==
    /\ Terminated
    /\ dispatches = 3
    /\ caught = {"TimeoutError", "NetworkError"}
    /\ ~aborted
    /\ result = Thrown("NetworkError")

\* C38: the deadline timer of an attempt is cancelled on every way out of
\* the fetch of that attempt, a response or a caught error.  So a timer is
\* pending exactly while a fetch is pending, never during a body read or a
\* backoff wait or after the call; a timer is armed only when none is
\* pending, which makes at most one pending at any time; and a fetch is
\* aborted only by the timer armed with it, at its own attempt.
C38_TimerCancelled ==
    /\ [](IsPresent(timer) <=> pc = "fetching")
    /\ [][pc = "fetching" =>
              \/ ~IsPresent(timer')
              \/ dispatches' = dispatches + 1]_vars
    /\ [][dispatches' = dispatches + 1 =>
              (~IsPresent(timer) /\ IsPresent(timer'))]_vars
    /\ [][(aborted' /\ ~aborted) =>
              /\ pc = "fetching"
              /\ IsPresent(timer)
              /\ ~IsPresent(timer')
              /\ attempt = dispatches
              /\ dispatches' = dispatches
              /\ inflight' = 0]_vars

\* The second attempt's fetch is pending under its own timer: the first
\* attempt was aborted by its deadline and a backoff wait has passed.
C38_Witness ==
    /\ pc = "fetching" /\ attempt = 2 /\ waits = 1
    /\ caught = {"TimeoutError"}
    /\ IsPresent(timer) /\ ~aborted /\ inflight = 1

\* C39: the deadline covers the wait for the response only.  While the body
\* of a response is read no timer is pending and no abort happens, so the
\* read is not bounded by the timeout: it ends only by completing or by
\* failing.  A read that fails is handled by the catch as a transport
\* failure of that attempt, recorded as NetworkError: below maxAttempts a
\* backoff wait and the next attempt follow, whatever the status of the
\* response was, an accepted one included; at maxAttempts the call ends.
C39_DeadlineCoversFetchOnly ==
    /\ [](pc = "reading" =>
              /\ ~IsPresent(timer)
              /\ ~aborted
              /\ IsPresent(lastResponse))
    /\ [][pc = "reading" =>
              /\ ~aborted'
              /\ lastOutcome' \in {"accepted", "retryable", "rejected", "bodyError"}
              /\ dispatches' = dispatches]_vars
    /\ [][(pc = "reading" /\ lastOutcome' = "bodyError") =>
              /\ lastError' = "NetworkError"
              /\ lastResponse' = lastResponse
              /\ IF attempt < cfg.retry.maxAttempts
                 THEN /\ pc' = "waiting"
                      /\ waits' = waits + 1
                      /\ result' = result
                 ELSE pc' = "done"]_vars
    /\ []((pc = "waiting" /\ lastOutcome = "bodyError") =>
              waitMs \in { (ClampedDelay * (3 * JitterSteps + 2 * k)) \div (4 * JitterSteps) :
                               k \in 0 .. JitterSteps - 1 })

\* The body of a 200 response, which the default predicate accepts, could
\* not be read at the first attempt, and the second fetch is pending.
C39_Witness ==
    /\ pc = "fetching" /\ attempt = 2 /\ waits = 1
    /\ lastOutcome = "bodyError"
    /\ lastError = "NetworkError"
    /\ lastResponse /= Absent
    /\ lastResponse[1].status = 200
    /\ options.validateStatus = Absent

\* C40: a Failure built after the loop (the attempts are used up and the
\* last attempt ended in the catch) has the empty string as its body and, as
\* its error text, the message of the last error caught, that of a timeout
\* when the last fetch was aborted and that of a network error otherwise,
\* not the text "HTTP <status>: <statusText>"; its status code and headers
\* are those of the response kept in lastResponse.
C40_FailureAfterLoopShape ==
    (result.kind = "failed" /\ attempt > cfg.retry.maxAttempts) =>
        /\ result.body = ""
        /\ result.error =
               (IF aborted THEN "Request timed out" ELSE "Network error")
        /\ result.error /= "HTTP status"
        /\ lastError = (IF aborted THEN "TimeoutError" ELSE "NetworkError")
        /\ lastOutcome \in {"transport", "bodyError"}
        /\ result.statusCode = lastResponse[1].status
        /\ result.retryAfter = lastResponse[1].retryAfter

\* A Failure of status 503 whose error text is that of the timeout of the
\* last attempt.
C40_Witness ==
    /\ result.kind = "failed"
    /\ attempt > cfg.retry.maxAttempts
    /\ aborted
    /\ result.error = "Request timed out"
    /\ result.body = ""
    /\ result.statusCode = 503
    /\ result.retryAfter = Some(<<"2">>)

====
